---- MODULE Spec2Model ----
(***************************************************************************)
(* Model of pkg/nodejs/nextjs.go (adaptor version normalisation, lockfile  *)
(* version resolution, adaptor layer installation) and of the apphosting   *)
(* schema loader (src/unnamed/part_000).                                   *)
(*                                                                         *)
(* Go strings are modelled as sequences of one-character strings, so that  *)
(* strings.Split, strings.Fields, strings.Trim, strings.HasPrefix,         *)
(* strings.Contains and strconv.ParseUint/FormatUint are computed, not     *)
(* assumed.                                                                *)
(***************************************************************************)
EXTENDS Integers, Sequences, FiniteSets, TLC

VARIABLES
    njsSpec,          \* the declared next specifier, structured (what njsVersion denotes)
    njsVersion,       \* the declared next specifier as the Go string handed to the code
    adapterVersion,   \* [run, version]: result of detectNextjsAdaptorVersion, or NotRun
    appRoot,          \* the lockfiles at ctx.ApplicationRoot(): filename -> content or Absent
    pjsNext,          \* pjs.Dependencies["next"]
    installedVersion, \* result of Version, Panicked, or NotRun
    apphostingFile,   \* what os.ReadFile finds at filePath
    loaded,           \* result of ReadAndValidateAppHostingSchemaFromFile, or NotRun
    metadata,         \* the layer's metadata under nextJsVersionKey
    layerContents,    \* the adaptor package installed in the layer directory
    lastCall,         \* what the last InstallNextJsBuildAdaptor call did, or NotRun
    calls             \* number of InstallNextJsBuildAdaptor calls so far

vars ==
    <<njsSpec, njsVersion, adapterVersion, appRoot, pjsNext, installedVersion,
      apphostingFile, loaded, metadata, layerContents, lastCall, calls>>

normVars == <<njsSpec, njsVersion, adapterVersion>>
lockVars == <<appRoot, pjsNext, installedVersion>>
schemaVars == <<apphostingFile, loaded>>
layerVars == <<metadata, layerContents, lastCall, calls>>

\* a result before the call that produces it
NotRun == [run |-> FALSE]

(***************************************************************************)
(* Go strings package                                                      *)
(***************************************************************************)

\* Literal strings used by the code, as character sequences.
SP == <<" ">>
DOT == <<".">>
NL == <<"\n">>
LT == <<"<">>
LE == <<"<", "=">>
GT == <<">">>
GE == <<">", "=">>
ZERO == <<"0">>
LATEST == <<"l", "a", "t", "e", "s", "t">>

\* strings.HasPrefix
HasPrefix(s, p) ==
    /\ Len(p) <= Len(s)
    /\ SubSeq(s, 1, Len(p)) = p

\* strings.Index, 1-based; 0 when sep does not occur in s
Index(s, sep) ==
    LET hits == {i \in 1..(Len(s) - Len(sep) + 1) : SubSeq(s, i, i + Len(sep) - 1) = sep}
    IN  IF hits = {} THEN 0 ELSE CHOOSE i \in hits : \A j \in hits : i <= j

\* strings.Contains
Contains(s, sub) == Len(sub) = 0 \/ Index(s, sub) # 0

\* strings.Split for a non-empty separator
RECURSIVE Split(_, _)
Split(s, sep) ==
    LET i == Index(s, sep)
    IN  IF i = 0 THEN <<s>>
        ELSE <<SubSeq(s, 1, i - 1)>> \o Split(SubSeq(s, i + Len(sep), Len(s)), sep)

\* strings.SplitN for a non-empty separator and n > 0
RECURSIVE SplitN(_, _, _)
SplitN(s, sep, n) ==
    LET i == Index(s, sep)
    IN  IF n = 1 \/ i = 0 THEN <<s>>
        ELSE <<SubSeq(s, 1, i - 1)>> \o SplitN(SubSeq(s, i + Len(sep), Len(s)), sep, n - 1)

\* strings.Join
RECURSIVE Join(_, _)
Join(elems, sep) ==
    IF Len(elems) = 0 THEN <<>>
    ELSE IF Len(elems) = 1 THEN elems[1]
    ELSE elems[1] \o sep \o Join(Tail(elems), sep)

\* the pieces of s between runs of characters of cutset, empty pieces dropped
RECURSIVE FieldsFunc(_, _)
FieldsFunc(s, cutset) ==
    IF Len(s) = 0 THEN <<>>
    ELSE IF s[1] \in cutset THEN FieldsFunc(Tail(s), cutset)
    ELSE LET stops == {i \in 1..Len(s) : s[i] \in cutset}
             e == IF stops = {} THEN Len(s) + 1 ELSE CHOOSE i \in stops : \A j \in stops : i <= j
         IN  <<SubSeq(s, 1, e - 1)>> \o FieldsFunc(SubSeq(s, e, Len(s)), cutset)

WhiteSpace == {" ", "\t", "\n", "\r"}

\* strings.Fields
Fields(s) == FieldsFunc(s, WhiteSpace)

\* strings.Trim: all leading and trailing characters of cutset removed
RECURSIVE TrimLeft(_, _)
TrimLeft(s, cutset) ==
    IF Len(s) > 0 /\ s[1] \in cutset THEN TrimLeft(Tail(s), cutset) ELSE s

RECURSIVE TrimRight(_, _)
TrimRight(s, cutset) ==
    IF Len(s) > 0 /\ s[Len(s)] \in cutset THEN TrimRight(SubSeq(s, 1, Len(s) - 1), cutset) ELSE s

Trim(s, cutset) == TrimRight(TrimLeft(s, cutset), cutset)

DigitChars == <<"0", "1", "2", "3", "4", "5", "6", "7", "8", "9">>

IsDigit(c) == \E i \in 1..10 : DigitChars[i] = c

DigitVal(c) == (CHOOSE i \in 1..10 : DigitChars[i] = c) - 1

\* strconv.ParseUint(s, 10, 64) of a non-empty all-digit string
RECURSIVE ParseUint(_)
ParseUint(s) ==
    IF Len(s) = 1 THEN DigitVal(s[1])
    ELSE 10 * ParseUint(SubSeq(s, 1, Len(s) - 1)) + DigitVal(s[Len(s)])

\* strconv.FormatUint(n, 10)
RECURSIVE FormatUint(_)
FormatUint(n) ==
    IF n < 10 THEN <<DigitChars[n + 1]>>
    ELSE FormatUint(n \div 10) \o <<DigitChars[(n % 10) + 1]>>

(***************************************************************************)
(* github.com/Masterminds/semver, as far as nextjs.go uses it.  The model  *)
(* covers specifiers without "||" and without hyphen ranges ("a - b").     *)
(***************************************************************************)

Failed == [ok |-> FALSE]

AllDigits(s) == \A i \in 1..Len(s) : IsDigit(s[i])

Letters ==
    {"a", "b", "c", "d", "e", "f", "g", "h", "i", "j", "k", "l", "m",
     "n", "o", "p", "q", "r", "s", "t", "u", "v", "w", "x", "y", "z",
     "A", "B", "C", "D", "E", "F", "G", "H", "I", "J", "K", "L", "M",
     "N", "O", "P", "Q", "R", "S", "T", "U", "V", "W", "X", "Y", "Z"}

\* one dot-separated identifier of a pre-release or of build metadata
IsIdentifier(s) ==
    /\ Len(s) > 0
    /\ \A i \in 1..Len(s) : IsDigit(s[i]) \/ s[i] \in Letters \/ s[i] = "-"

\* a pre-release or build-metadata string: identifiers joined by dots
IsIdentifierList(s) ==
    LET ids == Split(s, DOT) IN \A i \in 1..Len(ids) : IsIdentifier(ids[i])

\* a numeric segment StrictNewVersion accepts: digits only, no leading zero
IsStrictNumber(p) ==
    /\ Len(p) > 0
    /\ AllDigits(p)
    /\ ~(Len(p) > 1 /\ p[1] = "0")

\* semver.StrictNewVersion: exactly major.minor.patch, then an optional
\* pre-release after "-" and optional build metadata after "+"
StrictNewVersion(v) ==
    LET parts == SplitN(v, DOT, 3) IN
    IF Len(v) = 0 \/ Len(parts) # 3 THEN Failed
    ELSE
        LET plus == SplitN(parts[3], <<"+">>, 2)
            build == IF Len(plus) > 1 THEN plus[2] ELSE <<>>
            dash == SplitN(plus[1], <<"-">>, 2)
            pre == IF Len(dash) > 1 THEN dash[2] ELSE <<>>
            patch == dash[1]
        IN  IF /\ IsStrictNumber(parts[1])
               /\ IsStrictNumber(parts[2])
               /\ IsStrictNumber(patch)
               /\ (Len(pre) = 0 \/ IsIdentifierList(pre))
               /\ (Len(build) = 0 \/ IsIdentifierList(build))
            THEN [ok |-> TRUE, major |-> ParseUint(parts[1]), minor |-> ParseUint(parts[2]),
                  patch |-> ParseUint(patch), pre |-> pre, build |-> build]
            ELSE Failed

\* the comparison operators of a constraint, longest first
ConstraintOps ==
    <<LE, GE, <<"=", ">">>, <<"=", "<">>, <<"!", "=">>, <<"~", ">">>,
      <<"=">>, LT, GT, <<"~">>, <<"^">>, <<>>>>

\* the operator a clause starts with (the regexp's leftmost alternative that matches)
ClauseOp(s) ==
    ConstraintOps[CHOOSE i \in 1..Len(ConstraintOps) :
        /\ HasPrefix(s, ConstraintOps[i])
        /\ \A j \in 1..(i - 1) : ~HasPrefix(s, ConstraintOps[j])]

Wildcards == {<<"x">>, <<"X">>, <<"*">>}

\* the version part of a clause: 1 to 3 dot-separated numbers or wildcards,
\* optionally prefixed by v, with an optional pre-release and build metadata
IsConstraintVersion(s) ==
    LET body == IF HasPrefix(s, <<"v">>) THEN Tail(s) ELSE s
        plus == SplitN(body, <<"+">>, 2)
        dash == SplitN(plus[1], <<"-">>, 2)
        core == Split(dash[1], DOT)
    IN  /\ Len(core) \in 1..3
        /\ \A i \in 1..Len(core) : (Len(core[i]) > 0 /\ AllDigits(core[i])) \/ core[i] \in Wildcards
        /\ (Len(dash) > 1 => IsIdentifierList(dash[2]))
        /\ (Len(plus) > 1 => IsIdentifierList(plus[2]))

\* an operator written apart from its version ("< 14.0.15") belongs to it
RECURSIVE JoinOperators(_)
JoinOperators(tokens) ==
    IF Len(tokens) < 2 THEN tokens
    ELSE IF Len(tokens[1]) > 0 /\ ClauseOp(tokens[1]) = tokens[1]
         THEN <<tokens[1] \o tokens[2]>> \o JoinOperators(SubSeq(tokens, 3, Len(tokens)))
         ELSE <<tokens[1]>> \o JoinOperators(Tail(tokens))

\* semver.NewConstraint: the AND-ed clauses of c, separated by spaces or commas,
\* each kept as the operator and the version text as written
NewConstraint(c) ==
    LET clauses == JoinOperators(FieldsFunc(c, WhiteSpace \cup {","}))
        parsed == [i \in 1..Len(clauses) |->
                     LET op == ClauseOp(clauses[i])
                     IN  [origfunc |-> op,
                          orig |-> SubSeq(clauses[i], Len(op) + 1, Len(clauses[i]))]]
    IN  IF Len(clauses) > 0 /\ \A i \in 1..Len(parsed) : IsConstraintVersion(parsed[i].orig)
        THEN [ok |-> TRUE, constraints |-> parsed]
        ELSE Failed

\* Constraints.String: each clause as operator then version, joined by single spaces
ConstraintsString(cs) ==
    Join([i \in 1..Len(cs.constraints) |->
            cs.constraints[i].origfunc \o cs.constraints[i].orig], SP)

(***************************************************************************)
(* detectNextjsAdaptorVersion                                              *)
(***************************************************************************)

\* RewriteConstraint without the look at the patch: < always becomes <=
RewriteConstraintAnyPatch(constraint) ==
    LET versionSplit == Split(constraint, DOT) IN
    IF Len(versionSplit) = 3
    THEN LET first == IF HasPrefix(versionSplit[1], LT) /\ ~HasPrefix(versionSplit[1], LE)
                      THEN LE \o Tail(versionSplit[1])
                      ELSE versionSplit[1]
             second == IF HasPrefix(first, GT) /\ ~HasPrefix(first, GE)
                       THEN GE \o Tail(first)
                       ELSE first
         IN  Join(<<second, versionSplit[2]>>, DOT)
    ELSE Join(versionSplit, DOT)

\* the body of the loop over the clauses of constraint.String()
RewriteConstraint(constraint) ==
    LET versionSplit == Split(constraint, DOT) IN
    IF Len(versionSplit) = 3
    THEN LET first == IF /\ HasPrefix(versionSplit[1], LT)
                         /\ ~HasPrefix(versionSplit[1], LE)
                         /\ ~HasPrefix(versionSplit[Len(versionSplit)], ZERO)
                      THEN LE \o Tail(versionSplit[1])
                      ELSE versionSplit[1]
             second == IF HasPrefix(first, GT) /\ ~HasPrefix(first, GE)
                       THEN GE \o Tail(first)
                       ELSE first
         IN  Join(<<second, versionSplit[2]>>, DOT)
    ELSE Join(versionSplit, DOT)

\* detectNextjsAdaptorVersion for a njsVersion that is no concrete version
detectFromConstraint(v) ==
    LET constraint == NewConstraint(v) IN
    IF ~constraint.ok THEN LATEST
    ELSE LET clauses == Split(ConstraintsString(constraint), SP)
         IN  Join([i \in 1..Len(clauses) |-> RewriteConstraint(clauses[i])], SP)

\* detectNextjsAdaptorVersion without the branch for a concrete version
detectWithoutStrictVersion(v) == detectFromConstraint(v)

detectNextjsAdaptorVersion(v) ==
    LET version == StrictNewVersion(v) IN
    IF version.ok
    THEN FormatUint(version.major) \o DOT \o FormatUint(version.minor)
    ELSE detectFromConstraint(v)

(***************************************************************************)
(* Declared specifiers handed to detectNextjsAdaptorVersion                *)
(***************************************************************************)

MaxClauses == 2

Majors == {13, 14}
Minors == {0, 2}
Patches == {0, 10, 15}

PreReleases == {<<>>, <<"b", "e", "t", "a", ".", "1">>}
BuildMetadata == {<<>>, <<"b", "5">>}

\* the comparators a clause is written with (none, the five of a range, caret)
Comparators == {<<>>, LT, LE, GT, GE, <<"=">>, <<"^">>}

\* major, major.minor or major.minor.patch
Components ==
    {<<14>>, <<14, 2>>, <<13, 0, 2>>} \cup {<<14, 0, p>> : p \in Patches}

Clauses == [op : Comparators, comps : Components]

\* how a range is written: "<14.0.15 >13.0.2", or with commas between the
\* clauses and the operator apart from its version, "< 14.0.15, > 13.0.2"
Styles == {"tight", "loose"}

GarbageTexts ==
    { <<>>,
      LATEST,
      <<"n", "o", "t", "-", "a", "-", "v", "e", "r", "s", "i", "o", "n">>,
      <<"1", "4", ".", "2", ".", "3", ".", "4">> }

SeqsUpTo(S, n) == UNION {[1..k -> S] : k \in 1..n}

Specifiers ==
    [kind : {"version"}, major : Majors, minor : Minors, patch : Patches,
     pre : PreReleases, build : BuildMetadata]
    \cup [kind : {"range"}, clauses : SeqsUpTo(Clauses, MaxClauses), style : Styles]
    \cup [kind : {"text"}, text : GarbageTexts]

\* major.minor.patch... as text
RenderComponents(comps) == Join([i \in 1..Len(comps) |-> FormatUint(comps[i])], DOT)

RenderClause(cl, gap) ==
    cl.op \o (IF Len(cl.op) > 0 THEN gap ELSE <<>>) \o RenderComponents(cl.comps)

\* the text of a specifier
Render(s) ==
    IF s.kind = "version"
    THEN RenderComponents(<<s.major, s.minor, s.patch>>)
         \o (IF Len(s.pre) > 0 THEN <<"-">> \o s.pre ELSE <<>>)
         \o (IF Len(s.build) > 0 THEN <<"+">> \o s.build ELSE <<>>)
    ELSE IF s.kind = "range"
    THEN Join([i \in 1..Len(s.clauses) |->
                 RenderClause(s.clauses[i], IF s.style = "loose" THEN SP ELSE <<>>)],
              IF s.style = "loose" THEN <<",", " ">> ELSE SP)
    ELSE s.text

NormIdle ==
    /\ njsSpec = [kind |-> "text", text |-> <<>>]
    /\ njsVersion = <<>>
    /\ adapterVersion = NotRun

InitNorm ==
    /\ njsSpec \in Specifiers
    /\ njsVersion = Render(njsSpec)
    /\ adapterVersion = NotRun

\* one call of detectNextjsAdaptorVersion(njsVersion)
Detect ==
    /\ adapterVersion = NotRun
    /\ adapterVersion' = [run |-> TRUE, version |-> detectNextjsAdaptorVersion(njsVersion)]
    /\ UNCHANGED <<njsSpec, njsVersion, lockVars, schemaVars, layerVars>>

(***************************************************************************)
(* Version: the lockfiles at the application root                          *)
(***************************************************************************)

possibleLockfileFilenames ==
    <<"pnpm-lock.yaml", "yarn.lock", "npm-shrinkwrap.json", "package-lock.json">>

NEXT_AT == <<"n", "e", "x", "t", "@">>
VERSION == <<"v", "e", "r", "s", "i", "o", "n">>
PAREN == <<"(">>

\* a file that os.ReadFile cannot read
Absent == [exists |-> FALSE]

\* a Go map read at a key: the zero value when the key is not in the map
MapGet(m, key) == IF key \in DOMAIN m THEN m[key] ELSE [version |-> <<>>]

NoEntries == [k \in {} |-> [version |-> <<>>]]

V_PNPM == <<"1", "4", ".", "2", ".", "3">>
V_SHRINKWRAP == <<"1", "4", ".", "1", ".", "0">>
V_PACKAGELOCK == <<"1", "4", ".", "0", ".", "4">>

\* pnpm-lock.yaml: not YAML for a PnpmLockfile, or its dependencies
PnpmFiles ==
    { [exists |-> TRUE, valid |-> FALSE],
      [exists |-> TRUE, valid |-> TRUE, dependencies |-> NoEntries],
      [exists |-> TRUE, valid |-> TRUE,
       dependencies |-> [k \in {"next"} |->
           [version |-> V_PNPM \o <<"(", "r", "e", "a", "c", "t", "@", "1", "8", ")">>]]] }

\* npm-shrinkwrap.json and package-lock.json: not JSON for an NpmLockfile, or its packages
NpmFiles(v) ==
    { [exists |-> TRUE, valid |-> FALSE],
      [exists |-> TRUE, valid |-> TRUE, packages |-> NoEntries],
      [exists |-> TRUE, valid |-> TRUE,
       packages |-> [k \in {"node_modules/next"} |-> [version |-> v]]] }

MaxBlocks == 2

SPEC14 == <<"^", "1", "4">>
SPEC13 == <<"^", "1", "3">>

\* the first line of a yarn.lock entry
YarnHeaders ==
    { NEXT_AT \o SPEC14 \o <<":">>,
      NEXT_AT \o SPEC13 \o <<":">>,
      <<"r", "e", "a", "c", "t", "@", "^", "1", "8", ":">> }

\* the lines after it: none with "version", yarn classic's, yarn berry's, and a
\* line holding the word version alone
YarnBodies ==
    { <<>>,
      NL \o <<" ", " ">> \o VERSION \o <<" ", "\"", "1", "4", ".", "2", ".", "4", "\"">>,
      NL \o <<" ", " ">> \o VERSION \o <<":", " ", "1", "3", ".", "5", ".", "1">>,
      NL \o <<" ", " ">> \o VERSION }

YarnBlocks == {h \o b : h \in YarnHeaders, b \in YarnBodies}

\* yarn.lock: entries separated by blank lines
YarnFiles ==
    {[exists |-> TRUE, raw |-> <<>>]}
    \cup {[exists |-> TRUE, raw |-> Join(blocks, NL \o NL)] :
            blocks \in SeqsUpTo(YarnBlocks, MaxBlocks)}

ApplicationRoots ==
    { [f \in {"pnpm-lock.yaml", "yarn.lock", "npm-shrinkwrap.json", "package-lock.json"} |->
          CASE f = "pnpm-lock.yaml" -> p
            [] f = "yarn.lock" -> y
            [] f = "npm-shrinkwrap.json" -> s
            [] OTHER -> l] :
        p \in PnpmFiles \cup {Absent}, y \in YarnFiles \cup {Absent},
        s \in NpmFiles(V_SHRINKWRAP) \cup {Absent}, l \in NpmFiles(V_PACKAGELOCK) \cup {Absent} }

Returned(v) == [kind |-> "return", version |-> v]
Panic == [kind |-> "panic"]
NoReturn == [kind |-> "none"]

\* the loop over the lines of one yarn.lock entry: the first line containing
\* "version" returns; strings.Fields(line)[1] is out of range on a line of one field
RECURSIVE YarnLines(_)
YarnLines(lines) ==
    IF Len(lines) = 0 THEN NoReturn
    ELSE IF Contains(lines[1], VERSION)
         THEN IF Len(Fields(lines[1])) < 2 THEN Panic
              ELSE Returned(Trim(Fields(lines[1])[2], {"\""}))
         ELSE YarnLines(Tail(lines))

\* YarnDependencies without the look for the declared specifier in the entry
RECURSIVE YarnDependenciesAnySpecifier(_, _)
YarnDependenciesAnySpecifier(dependencies, declared) ==
    IF Len(dependencies) = 0 THEN NoReturn
    ELSE LET found == IF Contains(dependencies[1], NEXT_AT)
                      THEN YarnLines(Split(dependencies[1], NL))
                      ELSE NoReturn
         IN  IF found.kind # "none" THEN found
             ELSE YarnDependenciesAnySpecifier(Tail(dependencies), declared)

\* the loop over the entries of yarn.lock
RECURSIVE YarnDependencies(_, _)
YarnDependencies(dependencies, declared) ==
    IF Len(dependencies) = 0 THEN NoReturn
    ELSE LET dependency == dependencies[1]
             found == IF Contains(dependency, NEXT_AT) /\ Contains(dependency, declared)
                      THEN YarnLines(Split(dependency, NL))
                      ELSE NoReturn
         IN  IF found.kind # "none" THEN found
             ELSE YarnDependencies(Tail(dependencies), declared)

\* the body of the loop over possibleLockfileFilenames, for one file
Lockfile(filename, file, declared) ==
    IF ~file.exists THEN NoReturn
    ELSE IF filename = "pnpm-lock.yaml"
    THEN IF file.valid
         THEN Returned(Split(MapGet(file.dependencies, "next").version, PAREN)[1])
         ELSE NoReturn
    ELSE IF filename = "yarn.lock"
    THEN YarnDependencies(Split(file.raw, NL \o NL), declared)
    ELSE IF file.valid
         THEN Returned(MapGet(file.packages, "node_modules/next").version)
         ELSE NoReturn

\* Version, from the i-th lockfile name on
RECURSIVE VersionFrom(_, _, _)
VersionFrom(i, root, declared) ==
    IF i > Len(possibleLockfileFilenames) THEN Returned(declared)
    ELSE LET filename == possibleLockfileFilenames[i]
             found == Lockfile(filename, root[filename], declared)
         IN  IF found.kind # "none" THEN found
             ELSE VersionFrom(i + 1, root, declared)

Version(root, declared) == VersionFrom(1, root, declared)

LockIdle ==
    /\ appRoot = [f \in {"pnpm-lock.yaml", "yarn.lock", "npm-shrinkwrap.json", "package-lock.json"} |-> Absent]
    /\ pjsNext = <<>>
    /\ installedVersion = NotRun

InitLock ==
    /\ appRoot \in ApplicationRoots
    /\ pjsNext = SPEC14
    /\ installedVersion = NotRun

\* one call of Version(ctx, pjs)
ResolveVersion ==
    /\ ~installedVersion.run
    /\ installedVersion' =
          LET r == Version(appRoot, pjsNext)
          IN  IF r.kind = "panic" THEN [run |-> TRUE, panicked |-> TRUE]
              ELSE [run |-> TRUE, panicked |-> FALSE, version |-> r.version]
    /\ UNCHANGED <<appRoot, pjsNext, normVars, schemaVars, layerVars>>

(***************************************************************************)
(* apphostingschema: RunConfig, EnvironmentVariable and the loader         *)
(***************************************************************************)

\* a nil pointer, an absent YAML key
Nil == [set |-> FALSE]
\* a pointer to v, a YAML key with value v
Ptr(v) == [set |-> TRUE, value |-> v]

validAvailabilityValues == {"BUILD", "RUNTIME"}

CPUMin == 1
CPUMax == 8
MemoryMiBMin == 512
MemoryMiBMax == 32768
ConcurrencyMin == 1
ConcurrencyMax == 1000
MaxInstancesMin == 1
MaxInstancesMax == 100
MinInstancesMin == 0
MinInstancesMax == 100

\* a float is a pair <<n, d>>, the number n/d with d > 0
FloatLeq(x, y) == x[1] * y[2] <= y[1] * x[2]
Float(n) == <<n, 1>>

NoError == [kind |-> "nil"]
\* fmt.Errorf: the message, as the pieces it is made of
Errorf(msg) == [kind |-> "error", msg |-> msg]

\* AppHostingSchema{}
EmptySchema ==
    [RunConfig |-> [CPU |-> Nil, MemoryMiB |-> Nil, Concurrency |-> Nil,
                    MaxInstances |-> Nil, MinInstances |-> Nil],
     Env |-> <<>>]

\* unmarshal((*plain)(rc)): each key of the runConfig mapping into its field
PlainRunConfig(y) ==
    [CPU |-> y.cpu, MemoryMiB |-> y.memoryMiB, Concurrency |-> y.concurrency,
     MaxInstances |-> y.maxInstances, MinInstances |-> y.minInstances]

\* RunConfig.UnmarshalYAML with the range its last message states, [1, 100],
\* enforced for minInstances
RunConfigUnmarshalYAMLMinOne(rc) ==
    IF rc.CPU.set /\ ~(FloatLeq(Float(CPUMin), rc.CPU.value) /\ FloatLeq(rc.CPU.value, Float(CPUMax)))
    THEN Errorf(<<"runConfig.cpu", " field is not in valid range of [1, 8]">>)
    ELSE IF rc.MemoryMiB.set /\ ~(MemoryMiBMin <= rc.MemoryMiB.value /\ rc.MemoryMiB.value <= MemoryMiBMax)
    THEN Errorf(<<"runConfig.memory", " field is not in valid range of [512, 32768]">>)
    ELSE IF rc.Concurrency.set /\ ~(ConcurrencyMin <= rc.Concurrency.value /\ rc.Concurrency.value <= ConcurrencyMax)
    THEN Errorf(<<"runConfig.concurrency", " field is not in valid range of [1, 1000]">>)
    ELSE IF rc.MaxInstances.set /\ ~(MaxInstancesMin <= rc.MaxInstances.value /\ rc.MaxInstances.value <= MaxInstancesMax)
    THEN Errorf(<<"runConfig.maxInstances", " field is not in valid range of [1, 100]">>)
    ELSE IF rc.MinInstances.set /\ ~(MinInstancesMin + 1 <= rc.MinInstances.value /\ rc.MinInstances.value <= MinInstancesMax)
    THEN Errorf(<<"runConfig.minInstances", " field is not in valid range of [1, 100]">>)
    ELSE NoError

\* RunConfig.UnmarshalYAML: the error it returns for the decoded rc
RunConfigUnmarshalYAML(rc) ==
    IF rc.CPU.set /\ ~(FloatLeq(Float(CPUMin), rc.CPU.value) /\ FloatLeq(rc.CPU.value, Float(CPUMax)))
    THEN Errorf(<<"runConfig.cpu", " field is not in valid range of [1, 8]">>)
    ELSE IF rc.MemoryMiB.set /\ ~(MemoryMiBMin <= rc.MemoryMiB.value /\ rc.MemoryMiB.value <= MemoryMiBMax)
    THEN Errorf(<<"runConfig.memory", " field is not in valid range of [512, 32768]">>)
    ELSE IF rc.Concurrency.set /\ ~(ConcurrencyMin <= rc.Concurrency.value /\ rc.Concurrency.value <= ConcurrencyMax)
    THEN Errorf(<<"runConfig.concurrency", " field is not in valid range of [1, 1000]">>)
    ELSE IF rc.MaxInstances.set /\ ~(MaxInstancesMin <= rc.MaxInstances.value /\ rc.MaxInstances.value <= MaxInstancesMax)
    THEN Errorf(<<"runConfig.maxInstances", " field is not in valid range of [1, 100]">>)
    ELSE IF rc.MinInstances.set /\ ~(MinInstancesMin <= rc.MinInstances.value /\ rc.MinInstances.value <= MinInstancesMax)
    THEN Errorf(<<"runConfig.minInstances", " field is not in valid range of [1, 100]">>)
    ELSE NoError

\* a string field: the zero value "" when the key is absent
StringField(y) == IF y.set THEN y.value ELSE ""

\* unmarshal((*plain)(ev)): each key of an env item into its field
PlainEnvironmentVariable(y) ==
    [Variable |-> StringField(y.variable), Value |-> StringField(y.value),
     Secret |-> StringField(y.secret), Availability |-> y.availability]

\* the loop over ev.Availability stopped after its first round
AvailabilityErrorFirstOnly(availability) ==
    IF Len(availability) > 0 /\ availability[1] \notin validAvailabilityValues
    THEN Errorf(<<"invalid value in 'availability': ", availability[1]>>)
    ELSE NoError

\* the loop over ev.Availability
RECURSIVE AvailabilityError(_)
AvailabilityError(availability) ==
    IF Len(availability) = 0 THEN NoError
    ELSE IF availability[1] \notin validAvailabilityValues
         THEN Errorf(<<"invalid value in 'availability': ", availability[1]>>)
         ELSE AvailabilityError(Tail(availability))

\* EnvironmentVariable.UnmarshalYAML: the error it returns for the decoded ev
EnvironmentVariableUnmarshalYAML(ev) ==
    IF ev.Value # "" /\ ev.Secret # ""
    THEN Errorf(<<"both 'value' and 'secret' fields cannot be present">>)
    ELSE IF ev.Value = "" /\ ev.Secret = ""
    THEN Errorf(<<"either 'value' or 'secret' field is required">>)
    ELSE AvailabilityError(ev.Availability)

\* the env sequence decoded item by item: the first error ends the decoding
RECURSIVE DecodeEnv(_)
DecodeEnv(items) ==
    IF Len(items) = 0 THEN [err |-> NoError, Env |-> <<>>]
    ELSE LET ev == PlainEnvironmentVariable(items[1])
             err == EnvironmentVariableUnmarshalYAML(ev)
         IN  IF err.kind # "nil" THEN [err |-> err, Env |-> <<>>]
             ELSE LET rest == DecodeEnv(Tail(items))
                  IN  [err |-> rest.err, Env |-> <<ev>> \o rest.Env]

\* the runConfig key decoded: without the key the field keeps its zero value
DecodeRunConfig(y) ==
    IF ~y.set THEN [err |-> NoError, RunConfig |-> EmptySchema.RunConfig]
    ELSE [err |-> RunConfigUnmarshalYAML(PlainRunConfig(y.value)),
          RunConfig |-> PlainRunConfig(y.value)]

\* yaml.Unmarshal(apphostingBuffer, &a): the keys are decoded in the order
\* of the document, and the first error of an UnmarshalYAML ends the decoding
YamlUnmarshal(doc) ==
    LET rc == DecodeRunConfig(doc.runConfig)
        env == DecodeEnv(doc.env)
        first == IF doc.runConfigFirst THEN rc.err ELSE env.err
        second == IF doc.runConfigFirst THEN env.err ELSE rc.err
    IN  [err |-> IF first.kind # "nil" THEN first ELSE second,
         a |-> [RunConfig |-> rc.RunConfig, Env |-> env.Env]]

\* a document left half decoded by an error; its contents are not modelled
Partial == [partial |-> TRUE]

\* the part of ReadAndValidateAppHostingSchemaFromFile after os.ReadFile has
\* read the file
UnmarshalBuffer(file) ==
    IF file.state = "malformed"
    THEN [a |-> Partial, err |-> [kind |-> "yaml", cause |-> Errorf(<<"yaml: unmarshal errors">>)]]
    ELSE LET r == YamlUnmarshal(file.doc)
         IN  IF r.err.kind # "nil"
             THEN [a |-> Partial, err |-> [kind |-> "yaml", cause |-> r.err]]
             ELSE [a |-> r.a, err |-> NoError]

\* the loader without the os.IsNotExist branch
ReadAndValidateWithoutIsNotExist(file) ==
    IF file.state \in {"missing", "unreadable"}
    THEN [a |-> EmptySchema, err |-> [kind |-> "read"]]
    ELSE UnmarshalBuffer(file)

ReadAndValidateAppHostingSchemaFromFile(file) ==
    IF file.state = "missing" THEN [a |-> EmptySchema, err |-> NoError]
    ELSE IF file.state = "unreadable"
    THEN [a |-> EmptySchema, err |-> [kind |-> "read"]]
    ELSE UnmarshalBuffer(file)

(***************************************************************************)
(* apphosting.yaml files                                                   *)
(***************************************************************************)

MaxEnv == 2

CPUInputs == {Nil, Ptr(<<1, 2>>), Ptr(Float(CPUMin)), Ptr(Float(CPUMax)), Ptr(<<17, 2>>), Ptr(Float(CPUMax + 1))}
MemoryMiBInputs == {Nil} \cup {Ptr(v) : v \in {MemoryMiBMin - 1, MemoryMiBMin, MemoryMiBMax, MemoryMiBMax + 1}}
ConcurrencyInputs == {Nil} \cup {Ptr(v) : v \in {ConcurrencyMin - 1, ConcurrencyMin, ConcurrencyMax, ConcurrencyMax + 1}}
MaxInstancesInputs == {Nil} \cup {Ptr(v) : v \in {MaxInstancesMin - 1, MaxInstancesMin, MaxInstancesMax, MaxInstancesMax + 1}}
MinInstancesInputs == {Nil} \cup {Ptr(v) : v \in {MinInstancesMin - 1, MinInstancesMin, MinInstancesMax, MinInstancesMax + 1}}

RunConfigInputs ==
    {Nil} \cup
    {Ptr(rc) : rc \in [cpu : CPUInputs, memoryMiB : MemoryMiBInputs, concurrency : ConcurrencyInputs,
                       maxInstances : MaxInstancesInputs, minInstances : MinInstancesInputs]}

\* a runConfig in range, and one with cpu out of range
SomeRunConfigs ==
    { Nil,
      Ptr([cpu |-> Ptr(Float(2)), memoryMiB |-> Nil, concurrency |-> Nil,
           maxInstances |-> Nil, minInstances |-> Ptr(0)]),
      Ptr([cpu |-> Ptr(Float(9)), memoryMiB |-> Nil, concurrency |-> Nil,
           maxInstances |-> Nil, minInstances |-> Nil]) }

EnvInputs ==
    [variable : {Ptr("API_KEY")},
     value : {Nil, Ptr(""), Ptr("x")},
     secret : {Nil, Ptr(""), Ptr("y")},
     availability : {<<>>, <<"BUILD">>, <<"BUILD", "RUNTIME">>, <<"RUNTIME", "STAGING">>}]

\* an env with one good item, and one whose item sets value and secret
SomeEnvs ==
    { <<>>,
      <<[variable |-> Ptr("API_KEY"), value |-> Ptr("x"), secret |-> Nil, availability |-> <<"BUILD">>]>>,
      <<[variable |-> Ptr("API_KEY"), value |-> Ptr("x"), secret |-> Ptr("y"), availability |-> <<>>]>> }

OtherFiles == {[state |-> "missing"], [state |-> "unreadable"], [state |-> "malformed"]}

YamlFiles(runConfigs, envs) ==
    {[state |-> "yaml", doc |-> d] :
        d \in [runConfig : runConfigs, env : envs, runConfigFirst : BOOLEAN]}

SchemaIdle == apphostingFile = [state |-> "missing"] /\ loaded = NotRun

InitRunConfig ==
    /\ apphostingFile \in OtherFiles \cup YamlFiles(RunConfigInputs, SomeEnvs)
    /\ loaded = NotRun

InitEnv ==
    /\ apphostingFile \in OtherFiles \cup YamlFiles(SomeRunConfigs, {<<>>} \cup SeqsUpTo(EnvInputs, MaxEnv))
    /\ loaded = NotRun

\* one call of ReadAndValidateAppHostingSchemaFromFile(filePath)
Load ==
    /\ ~loaded.run
    /\ loaded' = [run |-> TRUE] @@ ReadAndValidateAppHostingSchemaFromFile(apphostingFile)
    /\ UNCHANGED <<apphostingFile, normVars, lockVars, layerVars>>

(***************************************************************************)
(* InstallNextJsBuildAdaptor on one layer                                  *)
(***************************************************************************)

MaxCalls == 3

\* the directory of the layer: no package, or the adaptor at the tag installed
EmptyLayer == [installed |-> FALSE]
Adaptor(tag) == [installed |-> TRUE, tag |-> tag]

\* downloadNextJsAdaptor without the second npm install
downloadWithoutFallback(version, exec1, exec2) ==
    IF exec1 THEN [err |-> FALSE, execs |-> <<version>>, contents |-> Adaptor(version)]
    ELSE [err |-> TRUE, execs |-> <<version>>, contents |-> EmptyLayer]

\* downloadNextJsAdaptor: npm install of the adaptor at version, and on
\* failure at latest; exec1 and exec2 are the outcomes of the two ctx.Exec
downloadNextJsAdaptor(version, exec1, exec2) ==
    IF exec1 THEN [err |-> FALSE, execs |-> <<version>>, contents |-> Adaptor(version)]
    ELSE IF exec2 THEN [err |-> FALSE, execs |-> <<version, LATEST>>, contents |-> Adaptor(LATEST)]
    ELSE [err |-> TRUE, execs |-> <<version, LATEST>>, contents |-> EmptyLayer]

\* InstallNextJsBuildAdaptor from the cache check on, version being
\* detectNextjsAdaptorVersion(njsVersion)
InstallVersion(meta, contents, v, version, clear, afterClear, exec1, exec2) ==
    LET metaVersion == meta
        call == [run |-> TRUE, njsVersion |-> v, version |-> version, metaVersion |-> metaVersion]
    IN  IF version = metaVersion
        THEN [metadata |-> version, contents |-> contents,
              call |-> call @@ [cacheHit |-> TRUE, cleared |-> "no", execs |-> <<>>, err |-> FALSE]]
        ELSE IF ~clear
        THEN [metadata |-> meta, contents |-> afterClear,
              call |-> call @@ [cacheHit |-> FALSE, cleared |-> "failed", execs |-> <<>>, err |-> TRUE]]
        ELSE LET d == downloadNextJsAdaptor(version, exec1, exec2) IN
             IF d.err
             THEN [metadata |-> meta, contents |-> d.contents,
                   call |-> call @@ [cacheHit |-> FALSE, cleared |-> "yes", execs |-> d.execs, err |-> TRUE]]
             ELSE [metadata |-> version, contents |-> d.contents,
                   call |-> call @@ [cacheHit |-> FALSE, cleared |-> "yes", execs |-> d.execs, err |-> FALSE]]

\* InstallNextJsBuildAdaptor(ctx, njsl, njsVersion) on a layer with metadata
\* meta and directory contents; clear is the outcome of ctx.ClearLayer, after
\* which the directory is afterClear.  Gives the layer after the call and
\* what the call did.
InstallAdaptor(meta, contents, v, clear, afterClear, exec1, exec2) ==
    InstallVersion(meta, contents, v, detectNextjsAdaptorVersion(v), clear, afterClear, exec1, exec2)

\* the next versions the builds of one application go through
NjsVersions ==
    { Render([kind |-> "version", major |-> 14, minor |-> 2, patch |-> 0, pre |-> <<>>, build |-> <<>>]),
      Render([kind |-> "version", major |-> 14, minor |-> 2, patch |-> 15, pre |-> <<>>, build |-> <<>>]),
      Render([kind |-> "version", major |-> 13, minor |-> 0, patch |-> 10, pre |-> <<>>, build |-> <<>>]),
      Render([kind |-> "range", clauses |-> <<[op |-> LT, comps |-> <<14, 0, 15>>]>>, style |-> "tight"]),
      LATEST }

LayerIdle == metadata = <<>> /\ layerContents = EmptyLayer /\ lastCall = NotRun /\ calls = 0

\* a new layer: ctx.GetMetadata gives "" for a key never set
InitLayer == LayerIdle

\* one call of InstallNextJsBuildAdaptor
Install ==
    /\ calls < MaxCalls
    /\ \E v \in NjsVersions, clear \in BOOLEAN, exec1 \in BOOLEAN, exec2 \in BOOLEAN,
          afterClear \in {layerContents, EmptyLayer} :
          LET r == InstallAdaptor(metadata, layerContents, v,
                                  clear, IF clear THEN EmptyLayer ELSE afterClear, exec1, exec2)
          IN  /\ metadata' = r.metadata
              /\ layerContents' = r.contents
              /\ lastCall' = r.call
    /\ calls' = calls + 1
    /\ UNCHANGED <<normVars, lockVars, schemaVars>>

(***************************************************************************)
(* Specifications: one per entry point, the state of the others at rest    *)
(***************************************************************************)

InitDetect == InitNorm /\ LockIdle /\ SchemaIdle /\ LayerIdle
InitVersion == InitLock /\ NormIdle /\ SchemaIdle /\ LayerIdle
InitLoadRunConfig == InitRunConfig /\ NormIdle /\ LockIdle /\ LayerIdle
InitLoadEnv == InitEnv /\ NormIdle /\ LockIdle /\ LayerIdle
InitInstall == InitLayer /\ NormIdle /\ LockIdle /\ SchemaIdle

SpecNorm == InitDetect /\ [][Detect]_vars
SpecLock == InitVersion /\ [][ResolveVersion]_vars
SpecRunConfig == InitLoadRunConfig /\ [][Load]_vars
SpecEnv == InitLoadEnv /\ [][Load]_vars
SpecLayer == InitInstall /\ [][Install]_vars

(***************************************************************************)
(* Claims about detectNextjsAdaptorVersion                                 *)
(***************************************************************************)

\* what the rewrite of one clause is to give: with three components the patch
\* goes, < becomes <= when the patch is not 0, > becomes >=
ExpectedClause(cl) ==
    IF Len(cl.comps) = 3
    THEN [op |-> IF cl.op = LT /\ cl.comps[3] # 0 THEN LE
                 ELSE IF cl.op = GT THEN GE
                 ELSE cl.op,
          comps |-> SubSeq(cl.comps, 1, 2)]
    ELSE cl

ExpectedRange(s) ==
    Join([i \in 1..Len(s.clauses) |-> RenderClause(ExpectedClause(s.clauses[i]), <<>>)], SP)

\* C7: a range is rewritten clause by clause, in order, joined by single
\* spaces: a major.minor.patch clause loses its patch, its < becomes <= exactly
\* when the patch is not 0, its > becomes >=, any other comparator stays; a
\* shorter clause is left as it is.
C7_RangeRewrittenClauseByClause ==
    (adapterVersion.run /\ njsSpec.kind = "range")
        => adapterVersion.version = ExpectedRange(njsSpec)

\* a two-clause range with a strict upper bound of nonzero patch and a strict
\* lower bound has been rewritten
C7_Witness ==
    /\ adapterVersion.run
    /\ njsSpec.kind = "range"
    /\ Len(njsSpec.clauses) = 2
    /\ njsSpec.clauses[1] = [op |-> LT, comps |-> <<14, 0, 15>>]
    /\ njsSpec.clauses[2] = [op |-> GT, comps |-> <<13, 0, 2>>]
    /\ adapterVersion.version = <<"<", "=", "1", "4", ".", "0", " ", ">", "=", "1", "3", ".", "0">>

\* C8: a concrete major.minor.patch version, with or without pre-release and
\* build metadata, gives "<major>.<minor>", and the result is "latest" exactly
\* when the specifier is neither a concrete version nor a range.
C8_ConcreteGivesMajorMinorElseLatest ==
    adapterVersion.run =>
        /\ (njsSpec.kind = "version" =>
                adapterVersion.version = FormatUint(njsSpec.major) \o DOT \o FormatUint(njsSpec.minor))
        /\ (adapterVersion.version = LATEST <=> njsSpec.kind = "text")

\* a concrete version with a pre-release and build metadata has been normalised
C8_Witness ==
    /\ adapterVersion.run
    /\ adapterVersion.version = <<"1", "4", ".", "2">>
    /\ njsSpec.kind = "version"
    /\ njsSpec.patch = 15
    /\ Len(njsSpec.pre) > 0
    /\ Len(njsSpec.build) > 0

(***************************************************************************)
(* Claims about Version                                                    *)
(***************************************************************************)

Min(S) == CHOOSE i \in S : \A j \in S : i <= j

\* the entries of yarn.lock, and those that name next@ and the declared specifier
YarnEntries == Split(appRoot["yarn.lock"].raw, NL \o NL)

MatchingEntries ==
    {i \in 1..Len(YarnEntries) :
        Contains(YarnEntries[i], NEXT_AT) /\ Contains(YarnEntries[i], pjsNext)}

\* the lines of an entry that contain "version"
VersionLines(entry) ==
    LET lines == Split(entry, NL) IN {j \in 1..Len(lines) : Contains(lines[j], VERSION)}

FirstVersionLine(entry) == Split(entry, NL)[Min(VersionLines(entry))]

\* the second whitespace-separated token of a line, without the quotes around it
SecondToken(line) == Trim(Fields(line)[2], {"\""})

\* the matching entries that have a line containing "version"
UsableEntries == {i \in MatchingEntries : VersionLines(YarnEntries[i]) # {}}

\* the pnpm branch lets resolution reach yarn.lock, and yarn.lock is there
YarnReached ==
    /\ installedVersion.run
    /\ ~installedVersion.panicked
    /\ appRoot["yarn.lock"].exists
    /\ (appRoot["pnpm-lock.yaml"].exists => ~appRoot["pnpm-lock.yaml"].valid)

\* what resolution gives when it goes on from yarn.lock to the npm lockfiles
AfterYarn == VersionFrom(3, appRoot, pjsNext).version

\* C4: Version never aborts, whatever the lockfiles hold.
C4_NeverAborts == installedVersion.run => ~installedVersion.panicked

\* the version a lockfile holds for next, as the specification describes it
LockfileMatch(filename) ==
    LET file == appRoot[filename] IN
    IF ~file.exists THEN <<>>
    ELSE IF filename = "pnpm-lock.yaml"
    THEN IF file.valid /\ "next" \in DOMAIN file.dependencies
         THEN SplitN(file.dependencies["next"].version, PAREN, 2)[1]
         ELSE <<>>
    ELSE IF filename = "yarn.lock"
    THEN IF UsableEntries # {}
         THEN SecondToken(FirstVersionLine(YarnEntries[Min(UsableEntries)]))
         ELSE <<>>
    ELSE IF file.valid /\ "node_modules/next" \in DOMAIN file.packages
         THEN file.packages["node_modules/next"].version
         ELSE <<>>

\* the lockfiles, by position in the fixed order, that hold a non-empty version
UsableLockfiles ==
    {i \in 1..Len(possibleLockfileFilenames) :
        Len(LockfileMatch(possibleLockfileFilenames[i])) > 0}

\* C5: the result is the version of the first lockfile, in the order pnpm,
\* yarn, shrinkwrap, package-lock, that exists and holds a non-empty version
\* for next, also when an earlier file exists and has no entry for it.
C5_FirstUsableLockfileWins ==
    (installedVersion.run /\ ~installedVersion.panicked /\ UsableLockfiles # {})
        => installedVersion.version =
              LockfileMatch(possibleLockfileFilenames[Min(UsableLockfiles)])

\* C6: when no lockfile exists or none holds a non-empty version for next,
\* the result is the specifier package.json declares.
C6_FallsBackToDeclared ==
    (installedVersion.run /\ ~installedVersion.panicked /\ UsableLockfiles = {})
        => installedVersion.version = pjsNext

RunConfigKeys == {"cpu", "memoryMiB", "concurrency", "maxInstances", "minInstances"}

\* the field of RunConfig a key of runConfig is decoded into
GoField(key) ==
    CASE key = "cpu" -> "CPU"
      [] key = "memoryMiB" -> "MemoryMiB"
      [] key = "concurrency" -> "Concurrency"
      [] key = "maxInstances" -> "MaxInstances"
      [] key = "minInstances" -> "MinInstances"

\* how an error message names the key
NamedAs(key) ==
    CASE key = "cpu" -> "runConfig.cpu"
      [] key = "memoryMiB" -> "runConfig.memory"
      [] key = "concurrency" -> "runConfig.concurrency"
      [] key = "maxInstances" -> "runConfig.maxInstances"
      [] key = "minInstances" -> "runConfig.minInstances"

\* the ranges: CPU in [1,8], MemoryMiB in [512,32768], Concurrency in
\* [1,1000], MaxInstances in [1,100], MinInstances in [0,100]
InRange(key, v) ==
    CASE key = "cpu" -> v[2] <= v[1] /\ v[1] <= 8 * v[2]
      [] key = "memoryMiB" -> v \in 512..32768
      [] key = "concurrency" -> v \in 1..1000
      [] key = "maxInstances" -> v \in 1..100
      [] key = "minInstances" -> v \in 0..100

\* the keys of a runConfig that are present and out of range
OutOfRange(runConfig) ==
    IF ~runConfig.set THEN {}
    ELSE {k \in RunConfigKeys : runConfig.value[k].set /\ ~InRange(k, runConfig.value[k].value)}

IsSet(y) == y.set /\ y.value # ""

\* an env item with exactly one of value and secret set, and only BUILD and
\* RUNTIME in availability
Acceptable(item) ==
    /\ IsSet(item.value) # IsSet(item.secret)
    /\ \A i \in 1..Len(item.availability) : item.availability[i] \in {"BUILD", "RUNTIME"}

AllAcceptable(env) == \A i \in 1..Len(env) : Acceptable(env[i])

LoadedYaml == loaded.run /\ apphostingFile.state = "yaml"

\* C1: with runConfig present, the load succeeds as far as runConfig goes
\* exactly when every present field is in its range; then each field of the
\* result is the input's, present or absent; and one field out of range makes
\* the load fail with an error that names it.
C1_RunConfigRanges ==
    (LoadedYaml /\ apphostingFile.doc.runConfig.set) =>
        LET doc == apphostingFile.doc
            bad == OutOfRange(doc.runConfig)
        IN  /\ loaded.err.kind = "nil" => bad = {}
            /\ (bad = {} /\ AllAcceptable(doc.env)) => loaded.err.kind = "nil"
            /\ loaded.err.kind = "nil" =>
                  \A k \in RunConfigKeys : loaded.a.RunConfig[GoField(k)] = doc.runConfig.value[k]
            /\ \A k \in RunConfigKeys :
                  (bad = {k} /\ (doc.runConfigFirst \/ AllAcceptable(doc.env))) =>
                      /\ loaded.err.kind = "yaml"
                      /\ loaded.err.cause.msg[1] = NamedAs(k)

\* a runConfig at the edges of its ranges has been loaded: minInstances 0 is
\* present in the result, the absent concurrency is absent
C1_Witness ==
    /\ LoadedYaml
    /\ loaded.err.kind = "nil"
    /\ loaded.a.RunConfig.CPU = Ptr(<<8, 1>>)
    /\ loaded.a.RunConfig.MemoryMiB = Ptr(512)
    /\ loaded.a.RunConfig.Concurrency = Nil
    /\ loaded.a.RunConfig.MaxInstances = Ptr(100)
    /\ loaded.a.RunConfig.MinInstances = Ptr(0)

\* C2: an env item is accepted exactly when one of value and secret is set
\* (a key with the empty string counts as not set) and availability holds
\* only BUILD and RUNTIME; one item that is not makes the load fail, so every
\* item of a loaded document has exactly one of value and secret.
C2_EnvValueXorSecret ==
    LoadedYaml =>
        LET doc == apphostingFile.doc IN
        /\ ~AllAcceptable(doc.env) => loaded.err.kind # "nil"
        /\ (AllAcceptable(doc.env) /\ OutOfRange(doc.runConfig) = {}) => loaded.err.kind = "nil"
        /\ loaded.err.kind = "nil" =>
              /\ Len(loaded.a.Env) = Len(doc.env)
              /\ \A i \in 1..Len(doc.env) :
                    /\ (loaded.a.Env[i].Value # "") # (loaded.a.Env[i].Secret # "")
                    /\ loaded.a.Env[i].Value = StringField(doc.env[i].value)
                    /\ loaded.a.Env[i].Secret = StringField(doc.env[i].secret)
                    /\ loaded.a.Env[i].Availability = doc.env[i].availability

\* two items have been loaded, one with a value, one with a secret
C2_Witness ==
    /\ LoadedYaml
    /\ loaded.err.kind = "nil"
    /\ Len(loaded.a.Env) = 2
    /\ loaded.a.Env[1].Value = "x"
    /\ loaded.a.Env[1].Availability = <<"BUILD", "RUNTIME">>
    /\ loaded.a.Env[2].Secret = "y"
    /\ loaded.a.Env[2].Value = ""

\* the document of the file violates no constraint
Valid(doc) == OutOfRange(doc.runConfig) = {} /\ AllAcceptable(doc.env)

\* C3: a missing file loads as the empty document without an error; any
\* other read failure, a file that does not parse and a file that violates a
\* constraint give an error.
C3_MissingFileIsNotAnError ==
    loaded.run =>
        /\ apphostingFile.state = "missing" => (loaded.err.kind = "nil" /\ loaded.a = EmptySchema)
        /\ apphostingFile.state = "unreadable" => loaded.err.kind = "read"
        /\ apphostingFile.state = "malformed" => loaded.err.kind = "yaml"
        /\ (apphostingFile.state = "yaml" /\ ~Valid(apphostingFile.doc)) => loaded.err.kind = "yaml"
        /\ loaded.err.kind = "nil" =>
              \/ apphostingFile.state = "missing"
              \/ apphostingFile.state = "yaml" /\ Valid(apphostingFile.doc)

\* the load of a missing file has returned the empty document and no error
C3_Witness ==
    /\ loaded.run
    /\ apphostingFile.state = "missing"
    /\ loaded.err = NoError
    /\ loaded.a.Env = <<>>
    /\ \A k \in RunConfigKeys : loaded.a.RunConfig[GoField(k)] = Nil

(***************************************************************************)
(* Claims about InstallNextJsBuildAdaptor                                  *)
(***************************************************************************)

CacheMiss == lastCall.version # lastCall.metaVersion

\* the install ran as it should: the requested version first, latest only
\* after that failed
InstallOrder ==
    /\ Len(lastCall.execs) \in 0..2
    /\ Len(lastCall.execs) >= 1 => lastCall.execs[1] = lastCall.version
    /\ Len(lastCall.execs) = 2 => lastCall.execs[2] = LATEST
    /\ Len(lastCall.execs) = 1 => ~lastCall.err
    /\ (Len(lastCall.execs) = 1 /\ ~lastCall.err) => layerContents = Adaptor(lastCall.version)
    /\ (Len(lastCall.execs) = 2 /\ ~lastCall.err) => layerContents = Adaptor(LATEST)

MetadataAfterCall ==
    /\ ~lastCall.err => metadata = lastCall.version
    /\ lastCall.err => metadata = lastCall.metaVersion

\* C10 as stated: a call clears the layer and runs the install exactly when
\* the stored version differs from the normalised one.
C10_MissClearsAndInstalls ==
    lastCall.run =>
        (CacheMiss <=> (lastCall.cleared # "no" /\ Len(lastCall.execs) >= 1))

\* a call after a call that returned no error, with the same njsVersion, is
\* a cache hit: no clear, no install
RepeatIsCacheHit ==
    (lastCall.run /\ ~lastCall.err /\ calls' = calls + 1
        /\ lastCall'.njsVersion = lastCall.njsVersion)
    => (lastCall'.cacheHit /\ lastCall'.cleared = "no" /\ lastCall'.execs = <<>>)

CallInvariant ==
    lastCall.run =>
        /\ lastCall.cleared # "no" <=> CacheMiss
        /\ Len(lastCall.execs) >= 1 <=> (CacheMiss /\ lastCall.cleared = "yes")
        /\ InstallOrder
        /\ MetadataAfterCall

\* C10 amended: a call tries to clear the layer exactly when the stored
\* version differs from the normalised one, and runs the install (requested
\* version, then latest only if that fails) exactly when it differs and the
\* clear succeeded; without error the stored version is the normalised one,
\* with an error it is unchanged; a repeated call with the same njsVersion
\* after a successful one is a cache hit with no clear and no install.
C10_MissClearsThenInstalls == [](CallInvariant) /\ [][RepeatIsCacheHit]_vars

\* the second call repeats a first that installed 14.2 and is a cache hit
C10_Witness ==
    /\ calls = 2
    /\ lastCall.run
    /\ lastCall.cacheHit
    /\ lastCall.version = <<"1", "4", ".", "2">>
    /\ lastCall.njsVersion = <<"1", "4", ".", "2", ".", "1", "5">>
    /\ layerContents = Adaptor(<<"1", "4", ".", "2">>)
    /\ metadata = <<"1", "4", ".", "2">>

====
